---- MODULE Spec2Model ----
(***************************************************************************)
(* Model of vpServo (src/servo/vpServo.cpp): the visual servoing task.     *)
(*                                                                         *)
(* One vpServo object is alive at a time; objects are created and          *)
(* destroyed one after the other, and the function-local static counter    *)
(* `iteration` of computeControlLaw() outlives every one of them.          *)
(*                                                                         *)
(* Feature objects are pointers: 1, 2, 3 are the caller's features,        *)
(* SynthBase + i is the i-th feature allocated by addFeature(s, select).   *)
(* Matrix and vector buffers are sequences of integer cells; Junk is a     *)
(* cell no feature wrote.                                                  *)
(***************************************************************************)
EXTENDS Integers, Sequences, FiniteSets, TLC

VARIABLES
    iteration,              \* static int iteration of computeControlLaw()
    obj,                    \* "none" | "live": is a vpServo object alive
    servoType, signInteractionMatrix,
    init_cVe, init_cVf, init_fVe, init_eJe, init_fJe,
    cVe, cVf, fVe, eJe, fJe,    \* "unset" | "set": was the matrix ever stored
    dim_task,
    featureList, desiredFeatureList, featureSelectionList,
    interactionMatrixType, inversionType,
    taskWasKilled,
    L, Lcols, s, sStar, error,
    J1, rankJ1, WpW,
    heap,                   \* the features allocated by addFeature(s, select)
    ret,                    \* the last call: its name and the error it threw
    hist,                   \* what has been called on the live object
    lastAsm                 \* measurements of the last stacked assemblies

kinVars  == <<servoType, signInteractionMatrix, init_cVe, init_cVf, init_fVe,
              init_eJe, init_fJe, cVe, cVf, fVe, eJe, fJe>>
listVars == <<featureList, desiredFeatureList, featureSelectionList>>
modeVars == <<interactionMatrixType, inversionType>>
bufVars  == <<L, Lcols, s, sStar, error>>
lawVars  == <<J1, rankJ1, WpW>>
vars     == <<iteration, obj, kinVars, dim_task, listVars, modeVars, taskWasKilled,
              bufVars, lawVars, heap, ret, hist, lastAsm>>

----------------------------------------------------------------------------
(* Bounds of the model *)

MaxFeat  == 2     \* longest feature list
MaxSel   == 3     \* longest selection list (kill() does not empty it)
MaxSynth == 2     \* features allocated by addFeature(s, select) per object
MaxIter  == 2     \* cap of the static iteration counter
MaxRows0 == 5     \* most rows a buffer holds before an assembly starts

----------------------------------------------------------------------------
(* Enumerations of vpServo *)

ServoTypes == {"NONE", "EYEINHAND_CAMERA", "EYEINHAND_L_cVe_eJe",
               "EYETOHAND_L_cVe_eJe", "EYETOHAND_L_cVf_fVe_eJe",
               "EYETOHAND_L_cVf_fJe"}
MatrixTypes    == {"CURRENT", "DESIRED", "MEAN"}
InversionTypes == {"PSEUDO_INVERSE", "TRANSPOSE"}

Min(a, b) == IF a < b THEN a ELSE b

----------------------------------------------------------------------------
(* Visual features (vpBasicFeature and its subclasses) *)

colL == 6      \* "const int colL = 6": the columns of L

CallerFeatures == {1, 2, 3}
SynthBase == Cardinality(CallerFeatures)
Junk      == 0 - 1

\* Number of scalar components of each of the caller's features.
CallerN(p) == CASE p = 1 -> 2 [] p = 2 -> 1 [] OTHER -> 6

IsSynth(p) == p > SynthBase

FeatN(p) == IF IsSynth(p) THEN heap[p - SynthBase].n ELSE CallerN(p)

\* vpBasicFeature::getDeallocate()
getDeallocate(p) == IF IsSynth(p) THEN heap[p - SynthBase].tag ELSE "user"

\* Bit i of the selection mask.
Bit(sel, i) == (sel \div (2 ^ i)) % 2

\* The components of an n-component feature that the mask selects, in order.
RECURSIVE SelectedFrom(_, _, _)
SelectedFrom(n, sel, i) ==
    IF i >= n THEN << >>
    ELSE IF Bit(sel, i) = 1 THEN <<i>> \o SelectedFrom(n, sel, i + 1)
         ELSE SelectedFrom(n, sel, i + 1)

Selected(p, sel) == SelectedFrom(FeatN(p), sel, 0)

\* vpBasicFeature::getDimension(select)
getDimension(p, sel) == Len(Selected(p, sel))

\* vpBasicFeature::interaction(select): one row per selected component. A row
\* is one even integer that names the feature and the component.
interaction(p, sel) ==
    LET c == Selected(p, sel)
    IN  [k \in 1..Len(c) |-> 2 * (100 * p + 10 * c[k] + 1)]

\* vpBasicFeature::get_s(): every component, whatever the mask.
get_s(p) == [k \in 1..FeatN(p) |-> 100 * p + 10 * (k - 1) + 2]

\* vpBasicFeature::error(s_star, select): one entry per selected component.
featureError(p, pStar, sel) ==
    LET c == Selected(p, sel)
    IN  [k \in 1..Len(c) |-> 10000 * pStar + 100 * p + 10 * c[k] + 3]

----------------------------------------------------------------------------
(* Construction, initialisation, destruction *)

\* The last call: its name, the error it threw ("none": it returned), and for
\* computeControlLaw() and secondaryTask() the vector it returned.
\* A command: the names of the stored matrices cVa and aJe were built from,
\* whether the projector WpW was applied, whether J1p is the pseudo-inverse.
\* A secondary vector: whether the projector it used was computed from the J1
\* of the last computeControlLaw() call.
NoVec == [cVa |-> << >>, aJe |-> << >>, proj |-> FALSE, pinv |-> FALSE, cur |-> FALSE]
NoRet == [op |-> "none", err |-> "none", vec |-> NoVec]
Ret(op, err) == [op |-> op, err |-> err, vec |-> NoVec]
RetVec(op, vec) == [op |-> op, err |-> "none", vec |-> vec]

\* called: computeControlLaw() was called on this object; okCalls: how many of
\* the calls returned (0, 1, 2 for more); law: how the last one ended;
\* notUpdated: the last one traced "All the matrices are not correctly
\* updated"; rankCur: rankJ1 is the rank of the J1 of the last call; killed:
\* kill() was called since init(); reinit: init() was called after
\* construction; addAfterKill: a feature was added after kill(); twice: the
\* last two calls were both kill(); registered: the arguments <<s, s_star,
\* select>> of the addFeature() calls made since the feature lists were last
\* emptied, in call order (s_star: the feature the call put in the desired
\* list); byInverse: the rank in rankJ1 was stored by a pseudo-inverse-mode cycle.
NoHist == [called |-> FALSE, okCalls |-> 0, law |-> "none", notUpdated |-> FALSE,
           rankCur |-> FALSE, killed |-> FALSE, reinit |-> FALSE,
           addAfterKill |-> FALSE, twice |-> FALSE, registered |-> << >>,
           byInverse |-> FALSE]

\* One stacked assembly: the rows the buffer had on entry, the rows written,
\* the number of doublings, and whether a copy wrote outside the buffer.
NoStack == [cap0 |-> 0, n |-> 0, re |-> 0, oob |-> FALSE]
NoAsm == [L |-> NoStack, Lstar |-> NoStack, s |-> NoStack, sStar |-> NoStack,
          error |-> NoStack]

\* J1: its rows and its numerical rank.
\* WpW: set when the projector was ever computed, cur when it was computed from
\* the J1 of the last computeControlLaw() call.
NoJ1  == [rows |-> 0, rank |-> 0]
NoWpW == [set |-> FALSE, cur |-> FALSE]

\* rankJ1 is an int member that neither the constructor nor init() assigns: it
\* is Indeterminate until computeControlLaw() stores a rank. A read of it
\* before that finds any value; GarbageRank holds the values the comparisons
\* with L.getCols() (0 or 6) can tell apart. The value read stays.
Indeterminate == 0 - 2
GarbageRank == {0, 3, 6}
RankRead == IF rankJ1 = Indeterminate THEN GarbageRank ELSE {rankJ1}

\* The fields init() assigns.
InitFields ==
    /\ servoType' = "NONE"
    /\ init_cVe' = FALSE /\ init_cVf' = FALSE /\ init_fVe' = FALSE
    /\ init_eJe' = FALSE /\ init_fJe' = FALSE
    /\ dim_task' = 0
    /\ featureList' = << >> /\ desiredFeatureList' = << >>
    /\ signInteractionMatrix' = 1
    /\ interactionMatrixType' = "DESIRED"
    /\ inversionType' = "PSEUDO_INVERSE"
    /\ taskWasKilled' = FALSE

\* State with no object alive: every member holds a fixed value.
NoObject ==
    /\ obj = "none"
    /\ servoType = "NONE" /\ signInteractionMatrix = 1
    /\ init_cVe = FALSE /\ init_cVf = FALSE /\ init_fVe = FALSE
    /\ init_eJe = FALSE /\ init_fJe = FALSE
    /\ cVe = "unset" /\ cVf = "unset" /\ fVe = "unset"
    /\ eJe = "unset" /\ fJe = "unset"
    /\ dim_task = 0
    /\ featureList = << >> /\ desiredFeatureList = << >>
    /\ featureSelectionList = << >>
    /\ interactionMatrixType = "DESIRED" /\ inversionType = "PSEUDO_INVERSE"
    /\ taskWasKilled = FALSE
    /\ L = << >> /\ Lcols = 0 /\ s = << >> /\ sStar = << >> /\ error = << >>
    /\ J1 = NoJ1 /\ rankJ1 = Indeterminate /\ WpW = NoWpW
    /\ heap = << >>
    /\ hist = NoHist
    /\ lastAsm = NoAsm

Init ==
    /\ iteration = 0
    /\ NoObject
    /\ ret = NoRet

\* vpServo::vpServo(): the members are default-constructed (empty matrices and
\* lists, twists as they are before any set_ call), then init() runs. rankJ1 is
\* assigned by neither.
Construct ==
    /\ obj = "none"
    /\ obj' = "live"
    /\ InitFields
    /\ featureSelectionList' = << >>
    /\ cVe' = "unset" /\ cVf' = "unset" /\ fVe' = "unset"
    /\ eJe' = "unset" /\ fJe' = "unset"
    /\ L' = << >> /\ Lcols' = 0 /\ s' = << >> /\ sStar' = << >> /\ error' = << >>
    /\ J1' = NoJ1 /\ WpW' = NoWpW
    /\ rankJ1' = Indeterminate
    /\ heap' = << >>
    /\ hist' = NoHist
    /\ lastAsm' = NoAsm
    /\ ret' = Ret("construct", "none")
    /\ UNCHANGED iteration

\* vpServo::init() called again on a live object.
InitTask ==
    /\ obj = "live"
    /\ InitFields
    /\ hist' = [hist EXCEPT !.killed = FALSE, !.reinit = TRUE, !.addAfterKill = FALSE,
                            !.twice = FALSE, !.registered = << >>]
    /\ ret' = Ret("init", "none")
    /\ UNCHANGED <<iteration, obj, cVe, cVf, fVe, eJe, fJe, featureSelectionList,
                   bufVars, lawVars, heap, lastAsm>>

\* A destructor that never throws.
DestroyNeverThrows == FALSE

\* vpServo::~vpServo()
DestroyThrows == taskWasKilled = FALSE

Destroy ==
    /\ obj = "live"
    /\ obj' = "none"
    /\ ret' = Ret("destroy", IF DestroyThrows THEN "notKilledProperly" ELSE "none")
    /\ servoType' = "NONE" /\ signInteractionMatrix' = 1
    /\ init_cVe' = FALSE /\ init_cVf' = FALSE /\ init_fVe' = FALSE
    /\ init_eJe' = FALSE /\ init_fJe' = FALSE
    /\ cVe' = "unset" /\ cVf' = "unset" /\ fVe' = "unset"
    /\ eJe' = "unset" /\ fJe' = "unset"
    /\ dim_task' = 0
    /\ featureList' = << >> /\ desiredFeatureList' = << >>
    /\ featureSelectionList' = << >>
    /\ interactionMatrixType' = "DESIRED" /\ inversionType' = "PSEUDO_INVERSE"
    /\ taskWasKilled' = FALSE
    /\ L' = << >> /\ Lcols' = 0 /\ s' = << >> /\ sStar' = << >> /\ error' = << >>
    /\ J1' = NoJ1 /\ rankJ1' = Indeterminate /\ WpW' = NoWpW
    /\ heap' = << >>
    /\ hist' = NoHist
    /\ lastAsm' = NoAsm
    /\ UNCHANGED iteration

----------------------------------------------------------------------------
(* Feature registry *)

\* vpServo::addFeature(s, s_star, select)
AddFeature2(p, pStar, sel) ==
    /\ obj = "live"
    /\ Len(featureList) < MaxFeat
    /\ Len(featureSelectionList) < MaxSel
    /\ featureList' = Append(featureList, p)
    /\ desiredFeatureList' = Append(desiredFeatureList, pStar)
    /\ featureSelectionList' = Append(featureSelectionList, sel)
    /\ hist' = [hist EXCEPT !.addAfterKill = @ \/ hist.killed, !.twice = FALSE,
                            !.registered = Append(@, <<p, pStar, sel>>)]
    /\ ret' = Ret("addFeature2", "none")
    /\ UNCHANGED <<iteration, obj, kinVars, dim_task, modeVars, taskWasKilled,
                   bufVars, lawVars, heap, lastAsm>>

\* s.duplicate(), s_star->init(), s_star->setDeallocate(vpBasicFeature::vpServo)
Duplicate(p) == [n |-> FeatN(p), val |-> "copy", tag |-> getDeallocate(p), freed |-> 0]

\* An addFeature(s, select) that leaves out "s_star->init()".
NewDesiredNotReset(p) == [Duplicate(p) EXCEPT !.tag = "vpServo"]

NewDesired(p) == [Duplicate(p) EXCEPT !.val = "neutral", !.tag = "vpServo"]

\* vpServo::addFeature(s, select)
AddFeature1(p, sel) ==
    /\ obj = "live"
    /\ Len(featureList) < MaxFeat
    /\ Len(heap) < MaxSynth
    /\ featureList' = Append(featureList, p)
    /\ heap' = Append(heap, NewDesired(p))
    /\ desiredFeatureList' = Append(desiredFeatureList, SynthBase + Len(heap) + 1)
    /\ featureSelectionList' = Append(featureSelectionList, sel)
    /\ hist' = [hist EXCEPT !.addAfterKill = @ \/ hist.killed, !.twice = FALSE,
                            !.registered =
                                Append(@, <<p, SynthBase + Len(heap) + 1, sel>>)]
    /\ ret' = Ret("addFeature1", "none")
    /\ UNCHANGED <<iteration, obj, kinVars, dim_task, modeVars, taskWasKilled,
                   bufVars, lawVars, lastAsm>>

\* How many times the loop of kill() deletes the object p points to.
Occurrences(list, p) == Cardinality({i \in 1..Len(list) : list[i] = p})

KillDeletes(p) ==
    IF getDeallocate(p) = "vpServo"
    THEN Occurrences(featureList, p) + Occurrences(desiredFeatureList, p)
    ELSE 0

\* "if (taskWasKilled == false)" in kill()
KillRuns == taskWasKilled = FALSE

\* A kill() without the taskWasKilled test and without the two
\* "kill()" calls on the lists: every call walks the lists and deletes.
KillUnguarded ==
    /\ obj = "live"
    /\ heap' = [i \in 1..Len(heap) |->
                 [heap[i] EXCEPT !.freed = @ + KillDeletes(SynthBase + i)]]
    /\ taskWasKilled' = TRUE
    /\ hist' = [hist EXCEPT !.killed = TRUE, !.twice = (ret.op = "kill")]
    /\ ret' = Ret("kill", "none")
    /\ UNCHANGED <<iteration, obj, kinVars, dim_task, listVars, modeVars,
                   bufVars, lawVars, lastAsm>>

\* vpServo::kill()
Kill ==
    /\ obj = "live"
    /\ IF KillRuns
       THEN /\ heap' = [i \in 1..Len(heap) |->
                          [heap[i] EXCEPT !.freed = @ + KillDeletes(SynthBase + i)]]
            /\ featureList' = << >>
            /\ desiredFeatureList' = << >>
            /\ taskWasKilled' = TRUE
       ELSE UNCHANGED <<heap, featureList, desiredFeatureList, taskWasKilled>>
    /\ hist' = [hist EXCEPT !.killed = TRUE, !.twice = (ret.op = "kill"),
                            !.registered = IF KillRuns THEN << >> ELSE @]
    /\ ret' = Ret("kill", "none")
    /\ UNCHANGED <<iteration, obj, kinVars, dim_task, featureSelectionList, modeVars,
                   bufVars, lawVars, lastAsm>>

----------------------------------------------------------------------------
(* Stacked assembly: the growth-and-copy loop shared by                    *)
(* computeInteractionMatrixFromList() and computeError()                   *)

\* vpMatrix::resize(n, cols, false) and vpColVector::resize(n, false): the
\* cells that stay keep their content, new cells hold nothing meaningful.
Resize(buf, n) == [k \in 1..n |-> IF k <= Len(buf) THEN buf[k] ELSE Junk]

\* An empty buffer raised to two rows instead of one.
FirstCapacityTwo(rows) == IF rows = 0 THEN 2 ELSE rows

\* "if (0 == rowL) { rowL = 1; L.resize(rowL, colL); }"
FirstCapacity(rows) == IF rows = 0 THEN 1 ELSE rows

\* "while (rows + cursor > cap) { cap *= 2; resize(cap) }": the capacity the
\* loop ends with, and the number of times it doubled.
\* The growth with "if" in place of "while": one doubling at most.
GrownOnce(cap, need) == IF need > cap THEN 2 * cap ELSE cap

\* The growth test off by one: "while (rows + cursor > cap + 1)".
RECURSIVE GrownShort(_, _)
GrownShort(cap, need) ==
    IF need > cap + 1 THEN GrownShort(2 * cap, need) ELSE cap

RECURSIVE GrownCapacity(_, _)
GrownCapacity(cap, need) ==
    IF need > cap THEN GrownCapacity(2 * cap, need) ELSE cap

RECURSIVE Doublings(_, _)
Doublings(cap, need) ==
    IF need > cap THEN 1 + Doublings(2 * cap, need) ELSE 0

\* "for (k = 0; k < rows; ++k) buf[cursor++] = tmp[k]": a write past the end
\* of the buffer lands outside it and is lost.
CopyAt(buf, cursor, tmp) ==
    [k \in 1..Len(buf) |->
        IF k > cursor /\ k <= cursor + Len(tmp) THEN tmp[k - cursor] ELSE buf[k]]

\* One turn of the loop over the features. st = [buf, cursor, re, oob].
StackStep(st, tmp) ==
    LET cap == GrownCapacity(Len(st.buf), Len(tmp) + st.cursor)
        grown == Resize(st.buf, cap)
    IN  [buf    |-> CopyAt(grown, st.cursor, tmp),
         cursor |-> st.cursor + Len(tmp),
         re     |-> st.re + Doublings(Len(st.buf), Len(tmp) + st.cursor),
         oob    |-> st.oob \/ (st.cursor + Len(tmp) > cap)]

RECURSIVE StackLoop(_, _, _)
StackLoop(st, contribs, i) ==
    IF i > Len(contribs) THEN st
    ELSE StackLoop(StackStep(st, contribs[i]), contribs, i + 1)

\* "L.resize(cursorL, colL, false)"
FinalRows(st) == st.cursor

\* The whole assembly of one buffer from the contributions of the features.
\* Result: the buffer, and the measurements of the run.
Stack(buf0, contribs) ==
    LET start == [buf |-> Resize(buf0, FirstCapacity(Len(buf0))), cursor |-> 0,
                  re |-> 0, oob |-> FALSE]
        end   == StackLoop(start, contribs, 1)
    IN  [buf  |-> Resize(end.buf, FinalRows(end)),
         stat |-> [cap0 |-> Len(buf0), n |-> end.cursor, re |-> end.re,
                   oob |-> end.oob]]

\* The contributions the loops read: entry i of a feature list goes with entry i
\* of featureSelectionList.
InteractionContribs(list) ==
    [i \in 1..Len(list) |-> interaction(list[i], featureSelectionList[i])]

ValueContribs(list) == [i \in 1..Len(list) |-> get_s(list[i])]

ErrorContribs ==
    [i \in 1..Len(featureList) |->
        featureError(featureList[i], desiredFeatureList[i], featureSelectionList[i])]

\* An assembly that does not test the list.
ListNeverEmpty(list) == FALSE

\* "if (featureList.empty())": the test that throws noFeatureError.
ListEmpty(list) == Len(list) = 0

\* vpMatrix operator+ : the operands must have the same number of rows.
SameRows(a, b) == Len(a) = Len(b)

\* "L = L+Lstar": the division by 2 left out.
SumMatrix(a, b) == [k \in 1..Len(a) |-> a[k] + b[k]]

\* (L + Lstar) / 2
MeanMatrix(a, b) == [k \in 1..Len(a) |-> (a[k] + b[k]) \div 2]

\* vpServo::computeInteractionMatrix() for interactionMatrixType = mt: the
\* matrix L, the error thrown, and the measurements, as a function of the
\* object's state.
\*   CURRENT, DESIRED: one assembly into L.
\*   MEAN: Lstar(L.getRows(), L.getCols()), two assemblies, L = (L + Lstar)/2.
InteractionMatrixOf(mt) ==
    LET list == IF mt = "DESIRED" THEN desiredFeatureList
                ELSE featureList
        a    == Stack(L, InteractionContribs(list))
        b    == Stack(Resize(<< >>, Len(L)), InteractionContribs(desiredFeatureList))
    IN  IF ListEmpty(list)
        THEN [err |-> "noFeatureError", L |-> L, done |-> FALSE,
              stat |-> NoStack, statStar |-> NoStack]
        ELSE IF mt # "MEAN"
        THEN [err |-> "none", L |-> a.buf, done |-> TRUE,
              stat |-> a.stat, statStar |-> NoStack]
        ELSE IF ListEmpty(desiredFeatureList)
        THEN [err |-> "noFeatureError", L |-> a.buf, done |-> TRUE,
              stat |-> a.stat, statStar |-> NoStack]
        ELSE IF ~SameRows(a.buf, b.buf)
        THEN [err |-> "matrixError", L |-> a.buf, done |-> TRUE,
              stat |-> a.stat, statStar |-> b.stat]
        ELSE [err |-> "none", L |-> MeanMatrix(a.buf, b.buf), done |-> TRUE,
              stat |-> a.stat, statStar |-> b.stat]

InteractionMatrixResult == InteractionMatrixOf(interactionMatrixType)

\* "dim_task = L.getRows()" is reached only when nothing was thrown.
DimAfterInteraction(r) == IF r.err = "none" THEN Len(r.L) ELSE dim_task

\* L.getCols() after the call: every assembly that ran resized L to 6 columns.
ColsAfterInteraction(r) == IF r.done THEN colL ELSE Lcols

\* vpServo::computeInteractionMatrix()
ComputeInteractionMatrix ==
    /\ obj = "live"
    /\ \E r \in {InteractionMatrixResult} :
           /\ L' = r.L
           /\ Lcols' = ColsAfterInteraction(r)
           /\ dim_task' = DimAfterInteraction(r)
           /\ lastAsm' = [lastAsm EXCEPT !.L = r.stat, !.Lstar = r.statStar]
           /\ ret' = Ret("computeInteractionMatrix", r.err)
    /\ UNCHANGED <<iteration, obj, kinVars, listVars, modeVars, taskWasKilled,
                   s, sStar, error, lawVars, heap, hist>>

\* vpServo::computeError(): the three vectors, the error thrown and the
\* measurements.
ErrorResult ==
    LET a == Stack(s, ValueContribs(featureList))
        b == Stack(sStar, ValueContribs(desiredFeatureList))
        c == Stack(error, ErrorContribs)
    IN  IF ListEmpty(featureList) \/ ListEmpty(desiredFeatureList)
        THEN [err |-> "noFeatureError", s |-> s, sStar |-> sStar, error |-> error,
              sStat |-> NoStack, sStarStat |-> NoStack, errorStat |-> NoStack]
        ELSE [err |-> "none", s |-> a.buf, sStar |-> b.buf, error |-> c.buf,
              sStat |-> a.stat, sStarStat |-> b.stat, errorStat |-> c.stat]

\* "dim_task = s.getRows()": the rows of the unmasked value vector.
DimFromValues(r) == IF r.err = "none" THEN Len(r.s) ELSE dim_task

\* "dim_task = error.getRows()"
DimAfterError(r) == IF r.err = "none" THEN Len(r.error) ELSE dim_task

\* vpServo::computeError()
ComputeError ==
    /\ obj = "live"
    /\ \E r \in {ErrorResult} :
           /\ s' = r.s /\ sStar' = r.sStar /\ error' = r.error
           /\ dim_task' = DimAfterError(r)
           /\ lastAsm' = [lastAsm EXCEPT !.s = r.sStat, !.sStar = r.sStarStat,
                                         !.error = r.errorStat]
           /\ ret' = Ret("computeError", r.err)
    /\ UNCHANGED <<iteration, obj, kinVars, listVars, modeVars, taskWasKilled,
                   L, Lcols, lawVars, heap, hist>>

\* The sum getDimension() accumulates in dim_task.
RECURSIVE DimensionSum(_)
DimensionSum(i) ==
    IF i > Len(featureList) THEN 0
    ELSE getDimension(featureList[i], featureSelectionList[i]) + DimensionSum(i + 1)

\* vpServo::getDimension()
GetDimension ==
    /\ obj = "live"
    /\ dim_task' = DimensionSum(1)
    /\ ret' = Ret("getDimension", "none")
    /\ UNCHANGED <<iteration, obj, kinVars, listVars, modeVars, taskWasKilled,
                   bufVars, lawVars, heap, hist, lastAsm>>

\* vpServo::setInteractionMatrixType(type, inversion)
SetInteractionMatrixType(mt, inv) ==
    /\ obj = "live"
    /\ interactionMatrixType' = mt
    /\ inversionType' = inv
    /\ ret' = Ret("set", "none")
    /\ UNCHANGED <<iteration, obj, kinVars, dim_task, listVars, taskWasKilled,
                   bufVars, lawVars, heap, hist, lastAsm>>

----------------------------------------------------------------------------
(* Kinematic inputs and servo configuration *)

\* vpServo::set_cVe(): stores the matrix and raises its flag.
Set_cVe(v) ==
    /\ cVe' = v /\ init_cVe' = TRUE

\* vpServo::set_eJe()
Set_eJe(v) ==
    /\ eJe' = v /\ init_eJe' = TRUE

\* The caller supplies one kinematic input.
SetInput(m) ==
    /\ obj = "live"
    /\ IF m = "cVe" THEN Set_cVe("set") ELSE UNCHANGED <<cVe, init_cVe>>
    /\ IF m = "eJe" THEN Set_eJe("set") ELSE UNCHANGED <<eJe, init_eJe>>
    /\ IF m = "cVf" THEN cVf' = "set" /\ init_cVf' = TRUE
                    ELSE UNCHANGED <<cVf, init_cVf>>
    /\ IF m = "fVe" THEN fVe' = "set" /\ init_fVe' = TRUE
                    ELSE UNCHANGED <<fVe, init_fVe>>
    /\ IF m = "fJe" THEN fJe' = "set" /\ init_fJe' = TRUE
                    ELSE UNCHANGED <<fJe, init_fJe>>
    /\ ret' = Ret("set", "none")
    /\ UNCHANGED <<iteration, obj, servoType, signInteractionMatrix, dim_task,
                   listVars, modeVars, taskWasKilled, bufVars, lawVars, heap, hist,
                   lastAsm>>

\* "signInteractionMatrix = 1" for the eye-in-hand types, -1 otherwise
SignOf(t) == IF t \in {"EYEINHAND_CAMERA", "EYEINHAND_L_cVe_eJe"} THEN 1 ELSE 0 - 1

\* vpServo::setServo()
SetServo(t) ==
    /\ obj = "live"
    /\ servoType' = t
    /\ signInteractionMatrix' = SignOf(t)
    /\ IF t = "EYEINHAND_CAMERA"
       THEN Set_cVe("set") /\ Set_eJe("set")
       ELSE UNCHANGED <<cVe, init_cVe, eJe, init_eJe>>
    /\ ret' = Ret("set", "none")
    /\ UNCHANGED <<iteration, obj, init_cVf, init_fVe, init_fJe, cVf, fVe, fJe,
                   dim_task, listVars, modeVars, taskWasKilled, bufVars, lawVars,
                   heap, hist, lastAsm>>

\* vpServo::testInitialization(), for a type other than NONE (NONE throws).
TestInitialization ==
    CASE servoType = "EYEINHAND_CAMERA" -> TRUE
      [] servoType \in {"EYEINHAND_L_cVe_eJe", "EYETOHAND_L_cVe_eJe"} ->
            init_cVe /\ init_eJe
      [] servoType = "EYETOHAND_L_cVf_fVe_eJe" -> init_cVf /\ init_fVe /\ init_eJe
      [] servoType = "EYETOHAND_L_cVf_fJe" -> init_cVf /\ init_fJe
      [] OTHER -> FALSE

\* A testUpdated() that asks the camera-frame type for fresh cVe and eJe, as it
\* asks EYETOHAND_L_cVe_eJe.
TestUpdatedCameraAsked ==
    CASE servoType \in {"EYEINHAND_CAMERA", "EYETOHAND_L_cVe_eJe"} ->
            init_cVe /\ init_eJe
      [] servoType = "EYEINHAND_L_cVe_eJe" -> init_eJe
      [] servoType = "EYETOHAND_L_cVf_fVe_eJe" -> init_fVe /\ init_eJe
      [] servoType = "EYETOHAND_L_cVf_fJe" -> init_fJe
      [] OTHER -> FALSE

\* vpServo::testUpdated(), for a type other than NONE (NONE throws).
TestUpdated ==
    CASE servoType = "EYEINHAND_CAMERA" -> TRUE
      [] servoType = "EYEINHAND_L_cVe_eJe" -> init_eJe
      [] servoType = "EYETOHAND_L_cVe_eJe" -> init_cVe /\ init_eJe
      [] servoType = "EYETOHAND_L_cVf_fVe_eJe" -> init_fVe /\ init_eJe
      [] servoType = "EYETOHAND_L_cVf_fJe" -> init_fJe
      [] OTHER -> FALSE

\* "if (iteration==0)": the calls that run testInitialization().
ChecksInitialization == iteration = 0

\* "case NONE: throw" in testInitialization(), in testUpdated() and in the
\* switch of computeControlLaw().
NoneThrows == servoType = "NONE"

\* Entry checks in which NONE is only looked at by testInitialization(), on the
\* first cycle.
EntryErrorFirstCycle ==
    IF ChecksInitialization /\ (NoneThrows \/ ~TestInitialization)
    THEN "servoError"
    ELSE "none"

\* Entry checks in which a false testUpdated() throws as a false
\* testInitialization() does.
EntryErrorStale ==
    IF ChecksInitialization /\ (NoneThrows \/ ~TestInitialization)
    THEN "servoError"
    ELSE IF NoneThrows \/ ~TestUpdated THEN "servoError"
    ELSE "none"

\* What computeControlLaw() throws before it touches any member: on the first
\* cycle when testInitialization() throws or returns false, on every cycle when
\* testUpdated() throws (a false testUpdated() is only traced), and in the
\* switch on the servo type.
EntryError ==
    IF ChecksInitialization /\ (NoneThrows \/ ~TestInitialization)
    THEN "servoError"
    ELSE IF NoneThrows THEN "servoError"
    ELSE "none"

\* The switch of computeControlLaw(): the stored matrices cVa and aJe are built
\* from, and the flags it lowers.
TwistsUsed ==
    CASE servoType = "EYETOHAND_L_cVf_fVe_eJe" -> <<"cVf", "fVe">>
      [] servoType = "EYETOHAND_L_cVf_fJe" -> <<"cVf">>
      [] OTHER -> <<"cVe">>

JacobianUsed == IF servoType = "EYETOHAND_L_cVf_fJe" THEN <<"fJe">> ELSE <<"eJe">>

\* A switch that lowers no flag.
FlagsKept == {}

FlagsLowered ==
    CASE servoType = "EYETOHAND_L_cVf_fVe_eJe" -> {"fVe", "eJe"}
      [] servoType = "EYETOHAND_L_cVf_fJe" -> {"fJe"}
      [] OTHER -> {"cVe", "eJe"}

StoredValue(m) ==
    CASE m = "cVe" -> cVe [] m = "cVf" -> cVf [] m = "fVe" -> fVe
      [] m = "eJe" -> eJe [] OTHER -> fJe

\* "J1 = L*cVa*aJe": a Jacobian that was never stored is an empty matrix and
\* the product throws.
ProductDefined == StoredValue(JacobianUsed[1]) # "unset"

\* The ranks J1.pseudoInverse() can report for a matrix of that many rows.
RankOutcomes(rows) == 0..Min(rows, colL)

\* "vpERROR_TRACE("All the matrices are not correctly updated")": the call got
\* past testInitialization() and testUpdated() returned false.
Reported ==
    /\ ~(ChecksInitialization /\ (NoneThrows \/ ~TestInitialization))
    /\ ~NoneThrows
    /\ ~TestUpdated

\* How far computeControlLaw() gets. The assembly of L runs when the entry
\* checks pass; the assembly of the error when that of L threw nothing (im is
\* its result); the product J1 = L*cVa*aJe when neither assembly threw (er is
\* the result of the second) and the Jacobian is not empty.
ImRan == EntryError = "none"

ErRan(im) == ImRan /\ im.err = "none"

J1Ran(im, er) == ErRan(im) /\ er.err = "none" /\ ProductDefined

\* The ranks the J1 of this call can have (0 when no J1 is built).
LawRanks(im, er) == IF J1Ran(im, er) THEN RankOutcomes(Len(im.L)) ELSE {0}

\* Transpose mode reads the member rankJ1 in "if (rankJ1 == L.getCols())";
\* pseudo-inverse mode has just assigned it.
ReadsRank(im, er) == J1Ran(im, er) /\ inversionType # "PSEUDO_INVERSE"

LawReads(im, er) == IF ReadsRank(im, er) THEN RankRead ELSE {rankJ1}

\* "if (rankJ1 == L.getCols())" in computeControlLaw(): the rank it compares.
RankCompared(r, g) == IF inversionType = "PSEUDO_INVERSE" THEN r ELSE g

\* The full-rank branch: e1 = J1p*error, no projector.
FullRank(r, g) == RankCompared(r, g) = colL

\* A transpose mode that never assigns rankJ1.
RankAssignedByInverse(r, g) == inversionType = "PSEUDO_INVERSE"

\* The member rankJ1 after a call that built J1: pseudoInverse() assigns it in
\* pseudo-inverse mode, and in transpose mode when the else branch runs.
RankAssigned(r, g) == inversionType = "PSEUDO_INVERSE" \/ ~FullRank(r, g)

\* "e1 = J1p*error" and "e1 = WpW*J1p*error": J1p has as many columns as L has
\* rows, and error must have that many rows.
E1Defined(im, er) == Len(im.L) = Len(er.error)

\* The error computeControlLaw() throws.
LawError(im, er) ==
    IF ~ImRan THEN EntryError
    ELSE IF ~ErRan(im) THEN im.err
    ELSE IF er.err # "none" THEN er.err
    ELSE IF ~J1Ran(im, er) THEN "matrixError"
    ELSE IF ~E1Defined(im, er) THEN "matrixError"
    ELSE "none"

\* An "iteration++" placed where failing calls pass too.
IterationCountsCalls(err) == iteration + 1

\* "iteration++" after the try block: reached only when nothing was thrown.
IterationAfter(err) == IF err = "none" THEN iteration + 1 ELSE iteration

\* vpServo::computeControlLaw(). r is the numerical rank of the J1 it builds, g
\* the value a read of rankJ1 finds.
ComputeControlLaw ==
    /\ obj = "live"
    /\ iteration < MaxIter
    /\ \E im \in {InteractionMatrixResult}, er \in {ErrorResult} :
       LET lowered == IF ImRan THEN FlagsLowered ELSE {}
           erRan == ErRan(im)
           j1Ran == J1Ran(im, er)
           err   == LawError(im, er)
       IN  /\ init_cVe' = (init_cVe /\ "cVe" \notin lowered)
           /\ init_cVf' = init_cVf
           /\ init_fVe' = (init_fVe /\ "fVe" \notin lowered)
           /\ init_eJe' = (init_eJe /\ "eJe" \notin lowered)
           /\ init_fJe' = (init_fJe /\ "fJe" \notin lowered)
           /\ L' = IF ImRan THEN im.L ELSE L
           /\ Lcols' = IF ImRan THEN ColsAfterInteraction(im) ELSE Lcols
           /\ s' = IF erRan THEN er.s ELSE s
           /\ sStar' = IF erRan THEN er.sStar ELSE sStar
           /\ error' = IF erRan THEN er.error ELSE error
           /\ dim_task' = IF erRan THEN DimAfterError(er)
                          ELSE IF ImRan THEN DimAfterInteraction(im)
                          ELSE dim_task
           /\ lastAsm' = [L     |-> IF ImRan THEN im.stat ELSE lastAsm.L,
                          Lstar |-> IF ImRan THEN im.statStar ELSE lastAsm.Lstar,
                          s     |-> IF erRan THEN er.sStat ELSE lastAsm.s,
                          sStar |-> IF erRan THEN er.sStarStat ELSE lastAsm.sStar,
                          error |-> IF erRan THEN er.errorStat ELSE lastAsm.error]
           /\ iteration' = IterationAfter(err)
           /\ \E r \in LawRanks(im, er), g \in LawReads(im, er) :
                /\ J1' = IF j1Ran THEN [rows |-> Len(im.L), rank |-> r] ELSE J1
                /\ rankJ1' = IF j1Ran /\ RankAssigned(r, g) THEN r ELSE g
                /\ WpW' = IF j1Ran /\ ~FullRank(r, g)
                          THEN [set |-> TRUE, cur |-> TRUE]
                          ELSE [WpW EXCEPT !.cur = FALSE]
                /\ ret' = IF err = "none"
                          THEN RetVec("computeControlLaw",
                                      [cVa  |-> TwistsUsed,
                                       aJe  |-> JacobianUsed,
                                       proj |-> ~FullRank(r, g),
                                       pinv |-> inversionType = "PSEUDO_INVERSE",
                                       cur  |-> FALSE])
                          ELSE Ret("computeControlLaw", err)
                /\ hist' = [hist EXCEPT
                              !.called = TRUE,
                              !.twice = FALSE,
                              !.okCalls = IF err = "none" THEN Min(@ + 1, 2) ELSE @,
                              !.notUpdated = Reported,
                              !.law = IF err = "none" THEN "ok" ELSE "failed",
                              !.rankCur = j1Ran /\ RankAssigned(r, g),
                              !.byInverse =
                                  IF j1Ran /\ RankAssigned(r, g)
                                  THEN inversionType = "PSEUDO_INVERSE"
                                  ELSE @]
    /\ UNCHANGED <<obj, servoType, signInteractionMatrix, cVe, cVf, fVe, eJe, fJe,
                   listVars, modeVars, taskWasKilled, heap>>

\* A secondaryTask() that does not look at the rank.
NoDofFreeUntested(g) == FALSE

\* "if (rankJ1 == L.getCols())" in secondaryTask()
NoDofFree(g) == g = Lcols

\* "I_WpW = (I - WpW); sec = I_WpW*de2dt": a projector that was never computed
\* is an empty matrix and the product throws.
SecondaryError(g) ==
    IF NoDofFree(g) THEN "noDofFree"
    ELSE IF ~WpW.set THEN "matrixError"
    ELSE "none"

\* vpServo::secondaryTask(de2dt) and vpServo::secondaryTask(e2, de2dt); g is
\* the value the read of rankJ1 finds.
SecondaryTask(form, g) ==
    /\ obj = "live"
    /\ g \in RankRead
    /\ rankJ1' = g
    /\ ret' = IF SecondaryError(g) = "none"
              THEN RetVec(form, [NoVec EXCEPT !.cur = WpW.cur])
              ELSE Ret(form, SecondaryError(g))
    /\ UNCHANGED <<iteration, obj, kinVars, dim_task, listVars, modeVars,
                   taskWasKilled, bufVars, J1, WpW, heap, hist, lastAsm>>

SecondaryTask1 == \E g \in RankRead : SecondaryTask("secondaryTask1", g)

SecondaryTask2 == \E g \in RankRead : SecondaryTask("secondaryTask2", g)

----------------------------------------------------------------------------
(* Specifications *)

\* The object's life and its feature registry.
AddOne == \E p \in {1, 2}, sel \in {1, 3} : AddFeature1(p, sel)

AddTwo == \E pStar \in {1, 2}, sel \in {1, 3} : AddFeature2(1, pStar, sel)

Next ==
    \/ Construct
    \/ InitTask
    \/ Destroy
    \/ AddOne
    \/ AddTwo
    \/ Kill
    \/ GetDimension

Spec == Init /\ [][Next]_vars

\* The kinematic inputs and the entry checks of the control law. The task
\* Jacobians of this specification have full row rank.
FullRankLaw == ComputeControlLaw /\ J1'.rank = Min(J1'.rows, colL)

\* The caller registers one feature of one component.
AddScalar == featureList = << >> /\ AddFeature1(2, 1)

Configure == \E t \in ServoTypes : SetServo(t)

Supply == \E m \in {"cVe", "cVf", "fVe", "eJe", "fJe"} : SetInput(m)

NextKin ==
    \/ Construct
    \/ Destroy
    \/ Configure
    \/ Supply
    \/ AddScalar
    \/ FullRankLaw

SpecKin == Init /\ [][NextKin]_vars

\* The control law with both inversion modes, every interaction-matrix mode and
\* task Jacobians of full and of deficient rank. The specification starts from
\* an object that was configured and given its five kinematic inputs:
\*   vpServo task; task.setServo(t); task.set_cVe(..); task.set_cVf(..);
\*   task.set_fVe(..); task.set_eJe(..); task.set_fJe(..);
\* The caller registers one feature, the six-component feature 3, under the full
\* mask or under the mask of its first component.
InitLaw ==
    /\ iteration = 0
    /\ obj = "live"
    /\ servoType \in ServoTypes \ {"NONE"}
    /\ signInteractionMatrix = SignOf(servoType)
    /\ init_cVe = TRUE /\ init_cVf = TRUE /\ init_fVe = TRUE
    /\ init_eJe = TRUE /\ init_fJe = TRUE
    /\ cVe = "set" /\ cVf = "set" /\ fVe = "set" /\ eJe = "set" /\ fJe = "set"
    /\ dim_task = 0
    /\ featureList = << >> /\ desiredFeatureList = << >>
    /\ featureSelectionList = << >>
    /\ interactionMatrixType = "DESIRED" /\ inversionType = "PSEUDO_INVERSE"
    /\ taskWasKilled = FALSE
    /\ L = << >> /\ Lcols = 0 /\ s = << >> /\ sStar = << >> /\ error = << >>
    /\ J1 = NoJ1 /\ rankJ1 = Indeterminate /\ WpW = NoWpW
    /\ heap = << >>
    /\ hist = NoHist
    /\ lastAsm = NoAsm
    /\ ret = Ret("set", "none")

AddPose == featureList = << >> /\ \E sel \in {1, 63} : AddFeature1(3, sel)

SetMode == \E mt \in MatrixTypes, inv \in InversionTypes : SetInteractionMatrixType(mt, inv)

\* The numerical ranks of this specification: 0, 1 and full column rank.
RankLaw == ComputeControlLaw /\ J1'.rank \in {0, 1, colL}

NextLaw ==
    \/ SetMode
    \/ AddPose
    \/ Kill
    \/ RankLaw
    \/ SecondaryTask1
    \/ SecondaryTask2

SpecLaw == InitLaw /\ [][NextLaw]_vars

\* The stacked assemblies as functions of the feature lists and of the rows the
\* buffers hold when the assembly starts. The specification starts from an
\* object on which addFeature() was called once per entry of a drawn sequence
\* (desired feature 0: the one-feature overload), whose interaction-matrix mode
\* was drawn, and whose buffers hold the rows an earlier assembly left.
Entries == {<<1, 0, 3>>, <<2, 0, 1>>, <<1, 0, 0>>, <<1, 2, 3>>, <<1, 2, 1>>}

EntrySeqs == UNION {[1..n -> Entries] : n \in 1..MaxFeat}

SynthCount(es, i) == Cardinality({j \in 1..i : es[j][2] = 0})

SynthEntry(es, k) == CHOOSE i \in 1..Len(es) : es[i][2] = 0 /\ SynthCount(es, i) = k

InitAsm ==
    /\ iteration = 0
    /\ obj = "live"
    /\ servoType = "NONE" /\ signInteractionMatrix = 1
    /\ init_cVe = FALSE /\ init_cVf = FALSE /\ init_fVe = FALSE
    /\ init_eJe = FALSE /\ init_fJe = FALSE
    /\ cVe = "unset" /\ cVf = "unset" /\ fVe = "unset"
    /\ eJe = "unset" /\ fJe = "unset"
    /\ \E es \in EntrySeqs :
         /\ SynthCount(es, Len(es)) <= MaxSynth
         /\ featureList = [i \in 1..Len(es) |-> es[i][1]]
         /\ desiredFeatureList =
              [i \in 1..Len(es) |->
                 IF es[i][2] = 0 THEN SynthBase + SynthCount(es, i) ELSE es[i][2]]
         /\ featureSelectionList = [i \in 1..Len(es) |-> es[i][3]]
         /\ heap = [k \in 1..SynthCount(es, Len(es)) |->
                      NewDesired(es[SynthEntry(es, k)][1])]
         /\ hist = [NoHist EXCEPT !.registered =
                      [i \in 1..Len(es) |->
                         <<es[i][1],
                           IF es[i][2] = 0 THEN SynthBase + SynthCount(es, i)
                           ELSE es[i][2],
                           es[i][3]>>]]
    /\ interactionMatrixType \in MatrixTypes
    /\ inversionType = "PSEUDO_INVERSE"
    /\ taskWasKilled = FALSE
    /\ \E n0 \in 0..MaxRows0 :
         /\ L = Resize(<< >>, n0)
         /\ Lcols = IF n0 = 0 THEN 0 ELSE colL
         /\ s = Resize(<< >>, n0)
         /\ sStar = Resize(<< >>, n0)
         /\ error = Resize(<< >>, n0)
         /\ dim_task = n0
    /\ J1 = NoJ1 /\ rankJ1 = Indeterminate /\ WpW = NoWpW
    /\ lastAsm = NoAsm
    /\ ret = Ret("addFeature", "none")

NextAsm ==
    \/ ComputeInteractionMatrix
    \/ ComputeError
    \/ GetDimension

SpecAsm == InitAsm /\ [][NextAsm]_vars

----------------------------------------------------------------------------
(* Properties *)

LawCalled == ret'.op = "computeControlLaw"

freshness == <<init_cVe, init_cVf, init_fVe, init_eJe, init_fJe>>

matrices == <<cVe, cVf, fVe, eJe, fJe>>

\* C1: with a servo type other than NONE whose initialization check passes
\* when it is run, a computeControlLaw() call made while the feature lists are
\* empty throws noFeatureError: it returns no command, leaves L as it was (no
\* zero-row matrix is produced) and leaves dim_task at the value it had.
C1_EmptyListsThrow ==
    [][ (/\ LawCalled
         /\ ~NoneThrows
         /\ (ChecksInitialization => TestInitialization)
         /\ featureList = << >>
         /\ desiredFeatureList = << >>)
        => (/\ ret'.err = "noFeatureError"
            /\ ret'.vec = NoVec
            /\ dim_task' = dim_task
            /\ L' = L) ]_vars

\* A call on emptied lists failed in MEAN mode after an earlier cycle had set
\* dim_task to the rows of the task.
C1_Witness ==
    /\ ret = Ret("computeControlLaw", "noFeatureError")
    /\ featureList = << >>
    /\ desiredFeatureList = << >>
    /\ interactionMatrixType = "MEAN"
    /\ hist.okCalls >= 1
    /\ dim_task > 0

\* The kinematic inputs testInitialization() asks for.
RequiredInputs ==
    CASE servoType \in {"EYEINHAND_L_cVe_eJe", "EYETOHAND_L_cVe_eJe"} -> {"cVe", "eJe"}
      [] servoType = "EYETOHAND_L_cVf_fVe_eJe" -> {"cVf", "fVe", "eJe"}
      [] servoType = "EYETOHAND_L_cVf_fJe" -> {"cVf", "fJe"}
      [] OTHER -> {}

NeverSupplied == {m \in RequiredInputs : StoredValue(m) = "unset"}

\* C2: the first computeControlLaw() call of every object, in a joint-frame or
\* eye-to-hand configuration with a required kinematic input that was never
\* supplied to that object, returns no command, however many cycles other
\* objects have run.
C2_FirstCallChecked ==
    [][ (/\ LawCalled
         /\ ~hist.called
         /\ NeverSupplied # {})
        => ret'.err # "none" ]_vars

\* C3: with servo type NONE every computeControlLaw() call, on the first cycle
\* and on every later one, throws servoError, returns no command, and leaves
\* the freshness flags, the cycle counter and dim_task as they were.
C3_NoneThrows ==
    [][ (LawCalled /\ servoType = "NONE")
        => (/\ ret'.err = "servoError"
            /\ ret'.vec = NoVec
            /\ UNCHANGED <<freshness, iteration, dim_task>>) ]_vars

\* The servo type was set back to NONE on an object that had run a cycle, and
\* the next call threw.
C3_Witness ==
    /\ ret = Ret("computeControlLaw", "servoError")
    /\ servoType = "NONE"
    /\ hist.okCalls >= 1
    /\ iteration > 0
    /\ dim_task > 0

\* C4: on a cycle after the object's first successful one, with a servo type
\* other than NONE, a registered feature and a stored Jacobian, a false
\* testUpdated() is only reported: the call returns a command, built from the
\* matrices as they are stored, and stores nothing in them.
C4_StaleOnlyReported ==
    [][ (/\ LawCalled
         /\ hist.okCalls >= 1
         /\ ~NoneThrows
         /\ Len(featureList) > 0
         /\ ProductDefined
         /\ ~TestUpdated)
        => (/\ ret'.err = "none"
            /\ hist'.notUpdated
            /\ ret'.vec.cVa = TwistsUsed
            /\ ret'.vec.aJe = JacobianUsed
            /\ UNCHANGED matrices) ]_vars

\* The second cycle of an object returned a command although testUpdated() was
\* false.
C4_Witness ==
    /\ ret.op = "computeControlLaw"
    /\ ret.err = "none"
    /\ hist.okCalls = 2
    /\ hist.notUpdated
    /\ ~TestUpdated

\* C5: after a computeControlLaw() call that returned with a J1 of rank 6, both
\* forms of secondaryTask() throw noDofFree, for every servo type and in both
\* inversion modes.
C5_FullRankNoDofFree ==
    [][ (/\ ret'.op \in {"secondaryTask1", "secondaryTask2"}
         /\ hist.law = "ok"
         /\ J1.rank = colL)
        => (ret'.err = "noDofFree" /\ ret'.vec = NoVec) ]_vars

\* Transpose mode, the read of rankJ1 found a value other than 6 so the
\* projector branch ran, J1 had rank 6, and secondaryTask(e2, de2dt) threw.
C5_Witness ==
    /\ ret = Ret("secondaryTask2", "noDofFree")
    /\ hist.law = "ok"
    /\ J1.rank = colL
    /\ inversionType = "TRANSPOSE"
    /\ WpW.cur

\* C6: on an object init() was not called on again, whenever the last call is
\* kill() every feature addFeature(s, select) allocated has been deleted
\* exactly once.
C6_ReleasedExactlyOnce ==
    (obj = "live" /\ ret.op = "kill" /\ ~hist.reinit)
        => \A i \in 1..Len(heap) : heap[i].freed = 1

\* C7: a kill() that directly follows a kill() changes no member, deletes
\* nothing and throws nothing; the flag stays true, and the lists stay empty
\* when no feature was added since the object was first killed.
C7_KillIdempotent ==
    [][ (ret.op = "kill" /\ ret'.op = "kill")
        => (/\ ret'.err = "none"
            /\ UNCHANGED <<iteration, obj, kinVars, dim_task, listVars, modeVars,
                           taskWasKilled, bufVars, lawVars, heap>>
            /\ taskWasKilled'
            /\ (~hist.addAfterKill
                  => featureList' = << >> /\ desiredFeatureList' = << >>)) ]_vars

\* kill() was called twice in a row on an object with allocated features.
C7_Witness ==
    /\ ret = Ret("kill", "none")
    /\ hist.twice
    /\ ~hist.addAfterKill
    /\ taskWasKilled
    /\ featureList = << >>
    /\ Len(heap) > 0
    /\ \A i \in 1..Len(heap) : heap[i].freed = 1

\* C8: the destructor throws notKilledProperly exactly when kill() was not
\* called on the object since its last init().
C8_DestroyThrowsIffNotKilled ==
    [][ (ret'.op = "destroy")
        => (/\ ret'.err \in {"none", "notKilledProperly"}
            /\ (ret'.err = "notKilledProperly") <=> ~hist.killed) ]_vars

\* An object was destroyed without error.
C8_Witness ==
    /\ ret = Ret("destroy", "none")
    /\ obj = "none"

\* The contributions of a list, one after the other in registration order.
RECURSIVE Concat(_, _)
Concat(contribs, i) ==
    IF i > Len(contribs) THEN << >>
    ELSE contribs[i] \o Concat(contribs, i + 1)

ExpectedL ==
    CASE interactionMatrixType = "CURRENT" ->
            Concat(InteractionContribs(featureList), 1)
      [] interactionMatrixType = "DESIRED" ->
            Concat(InteractionContribs(desiredFeatureList), 1)
      [] OTHER ->
            MeanMatrix(Concat(InteractionContribs(featureList), 1),
                       Concat(InteractionContribs(desiredFeatureList), 1))

\* C9: whatever rows the buffers held before, after computeInteractionMatrix()
\* L is the contributions of the features stacked in registration order and
\* nothing else (in MEAN mode the mean of the two stacks), and after
\* computeError() so are s, sStar and error.
C9_StackedInOrder ==
    /\ (ret = Ret("computeInteractionMatrix", "none") => L = ExpectedL)
    /\ (ret = Ret("computeError", "none")
          => /\ s = Concat(ValueContribs(featureList), 1)
             /\ sStar = Concat(ValueContribs(desiredFeatureList), 1)
             /\ error = Concat(ErrorContribs, 1))

\* Two features, a buffer of one row that doubled twice, and an error vector
\* shorter than s because the mask leaves components out.
C9_Witness ==
    /\ ret = Ret("computeError", "none")
    /\ Len(featureList) = 2
    /\ lastAsm.s.cap0 = 1
    /\ lastAsm.s.re = 2
    /\ Len(s) = 4
    /\ Len(error) < Len(s)

\* Every feature's interaction matrix (current and desired), error vector and
\* dimension under its mask have the same number of rows.
Conformable ==
    \A i \in 1..Len(featureList) :
        LET n == getDimension(featureList[i], featureSelectionList[i])
        IN  /\ Len(interaction(featureList[i], featureSelectionList[i])) = n
            /\ Len(interaction(desiredFeatureList[i], featureSelectionList[i])) = n
            /\ Len(featureError(featureList[i], desiredFeatureList[i],
                                featureSelectionList[i])) = n

\* C10: for conformable features, once computeInteractionMatrix() has run,
\* after computeError() dim_task is the number of rows of error and the number
\* of rows of L, in every interaction-matrix mode.
C10_DimTaskIsRows ==
    (/\ ret = Ret("computeError", "none")
     /\ lastAsm.L.n > 0
     /\ Conformable)
        => (dim_task = Len(error) /\ dim_task = Len(L))

\* MEAN mode, both calls made, and a value vector longer than the error vector.
C10_Witness ==
    /\ ret = Ret("computeError", "none")
    /\ lastAsm.L.n > 0
    /\ lastAsm.Lstar.n > 0
    /\ Conformable
    /\ interactionMatrixType = "MEAN"
    /\ dim_task = Len(error)
    /\ Len(s) > Len(error)

\* C11: in every state of a live object dim_task is the number of rows of L,
\* the number of rows of error, and the sum over the registered entries of the
\* dimension of the feature under its mask.
C11_DimTaskInvariant ==
    obj = "live"
        => (/\ dim_task = Len(L)
            /\ dim_task = Len(error)
            /\ dim_task = DimensionSum(1))

\* The sum of the dimensions of the registered entries, each under the mask it
\* was registered with.
RECURSIVE RegisteredSum(_)
RegisteredSum(i) ==
    IF i > Len(hist.registered) THEN 0
    ELSE getDimension(hist.registered[i][1], hist.registered[i][3])
         + RegisteredSum(i + 1)

\* C12: getDimension() stores in dim_task, and returns, the sum over the
\* registered entries of the dimension of the current feature under the mask
\* registered with it (a sum: the same for every order of the entries, and 0
\* for no entry).
C12_DimensionIsSum ==
    (ret.op = "getDimension" /\ ~hist.reinit) => dim_task = RegisteredSum(1)

\* C13: with servo type EYEINHAND_CAMERA testInitialization() and testUpdated()
\* are true at every computeControlLaw() call, first or later, whatever the
\* freshness flags are: the call never throws servoError, reports no stale
\* matrix, and with a registered feature returns a command built from the cVe
\* and eJe that setServo() stored.
C13_CameraNeedsNoInputs ==
    [][ (LawCalled /\ servoType = "EYEINHAND_CAMERA")
        => (/\ TestInitialization
            /\ TestUpdated
            /\ cVe = "set" /\ eJe = "set"
            /\ ret'.err # "servoError"
            /\ ~hist'.notUpdated
            /\ (Len(featureList) > 0
                  => /\ ret'.err = "none"
                     /\ ret'.vec.cVa = <<"cVe">>
                     /\ ret'.vec.aJe = <<"eJe">>)) ]_vars

\* The second cycle in a row of a camera-frame object returned a command with
\* every freshness flag down and no matrix other than the installed cVe and
\* eJe ever stored.
C13_Witness ==
    /\ ret.op = "computeControlLaw"
    /\ ret.err = "none"
    /\ servoType = "EYEINHAND_CAMERA"
    /\ hist.okCalls = 2
    /\ ~init_cVe /\ ~init_eJe /\ ~init_cVf /\ ~init_fVe /\ ~init_fJe
    /\ cVf = "unset" /\ fVe = "unset" /\ fJe = "unset"

LastOf(list) == list[Len(list)]

\* C14: addFeature(s, select) appends s to the current list and, to the desired
\* list, a feature allocated by the call (not s, not a caller's feature, not an
\* earlier allocation) that has the components of s, the neutral value and the
\* tag vpServo; addFeature(s, s_star, select) appends the caller's s_star and
\* allocates and retags nothing.
C14_AddFeatureOwnership ==
    [][ /\ (ret'.op = "addFeature1"
              => /\ Len(heap') = Len(heap) + 1
                 /\ \A i \in 1..Len(heap) : heap'[i] = heap[i]
                 /\ desiredFeatureList' =
                        Append(desiredFeatureList, SynthBase + Len(heap'))
                 /\ LastOf(desiredFeatureList') # LastOf(featureList')
                 /\ LastOf(desiredFeatureList') \notin CallerFeatures
                 /\ LastOf(heap') = [n     |-> FeatN(LastOf(featureList')),
                                     val   |-> "neutral",
                                     tag   |-> "vpServo",
                                     freed |-> 0])
        /\ (ret'.op = "addFeature2"
              => /\ heap' = heap
                 /\ desiredFeatureList' =
                        Append(desiredFeatureList, LastOf(hist'.registered)[2])
                 /\ LastOf(desiredFeatureList') \in CallerFeatures
                 /\ getDeallocate(LastOf(desiredFeatureList')) = "user") ]_vars

\* Both overloads were used on one object: the first entry holds a caller's
\* desired feature, the second an allocated one.
C14_Witness ==
    /\ ret.op = "addFeature1"
    /\ Len(desiredFeatureList) = 2
    /\ desiredFeatureList[1] \in CallerFeatures
    /\ getDeallocate(desiredFeatureList[1]) = "user"
    /\ IsSynth(desiredFeatureList[2])
    /\ getDeallocate(desiredFeatureList[2]) = "vpServo"

\* C15: on an object init() was not called on again, the three lists have the
\* same length, and entry i of each is what the i-th addFeature() call since
\* the lists were last emptied registered.
C15_ListsAligned ==
    (obj = "live" /\ ~hist.reinit)
        => (/\ Len(featureList) = Len(hist.registered)
            /\ Len(desiredFeatureList) = Len(hist.registered)
            /\ Len(featureSelectionList) = Len(hist.registered)
            /\ \A i \in 1..Len(hist.registered) :
                  hist.registered[i] = <<featureList[i], desiredFeatureList[i],
                                         featureSelectionList[i]>>)

\* C16: from the same state (same lists, same stored L), the matrix
\* computeInteractionMatrix() returns in MEAN mode has the rows of the matrices
\* it returns in CURRENT and in DESIRED mode, and each entry is half the sum of
\* theirs.
C16_MeanIsHalfSum ==
    [][ (/\ ret'.op = "computeInteractionMatrix"
         /\ ret'.err = "none"
         /\ interactionMatrixType = "MEAN")
        => (/\ InteractionMatrixOf("CURRENT").err = "none"
            /\ InteractionMatrixOf("DESIRED").err = "none"
            /\ Len(L') = Len(InteractionMatrixOf("CURRENT").L)
            /\ Len(L') = Len(InteractionMatrixOf("DESIRED").L)
            /\ \A k \in 1..Len(L') :
                  2 * L'[k] = InteractionMatrixOf("CURRENT").L[k]
                              + InteractionMatrixOf("DESIRED").L[k]) ]_vars

\* MEAN mode, two entries whose desired features differ from the current ones,
\* and a stored L that had more rows than the result.
C16_Witness ==
    /\ ret = Ret("computeInteractionMatrix", "none")
    /\ interactionMatrixType = "MEAN"
    /\ Len(featureList) = 2
    /\ lastAsm.L.cap0 > lastAsm.L.n
    /\ lastAsm.Lstar.n = lastAsm.L.n
    /\ \A k \in 1..Len(L) : L[k] # Concat(InteractionContribs(featureList), 1)[k]

\* The stored matrices the switch builds cVa and aJe from.
Consumed ==
    {TwistsUsed[i] : i \in 1..Len(TwistsUsed)} \cup {JacobianUsed[1]}

\* C17: after a computeControlLaw() call that reached the switch on the servo
\* type, the freshness flag of every matrix cVa and aJe were built from is
\* false.
C17_ConsumedFlagsLowered ==
    [][ (LawCalled /\ ImRan)
        => (/\ ("cVe" \in Consumed => ~init_cVe')
            /\ ("cVf" \in Consumed => ~init_cVf')
            /\ ("fVe" \in Consumed => ~init_fVe')
            /\ ("eJe" \in Consumed => ~init_eJe')
            /\ ("fJe" \in Consumed => ~init_fJe')) ]_vars

\* C18: in transpose mode, on an object whose rankJ1 was stored by an earlier
\* cycle run in pseudo-inverse mode, a computeControlLaw() call that returns
\* has computed no pseudo-inverse (it assigned no rank), has computed no
\* projector and has applied none to the command.
C18_TransposeIsFullRank ==
    [][ (/\ LawCalled
         /\ inversionType = "TRANSPOSE"
         /\ hist.okCalls >= 1
         /\ hist.byInverse
         /\ ret'.err = "none")
        => (/\ ~ret'.vec.pinv
            /\ ~ret'.vec.proj
            /\ ~WpW'.cur
            /\ ~hist'.rankCur) ]_vars

\* C19: the static counter never decreases; a computeControlLaw() call that
\* returns adds exactly one to it and a call that throws leaves it as it was;
\* so the initialization check, made while the counter is 0, is made again
\* after every failed call and never after a call returned.
C19_CounterCountsReturns ==
    [][ /\ iteration' >= iteration
        /\ (~LawCalled => iteration' = iteration)
        /\ (LawCalled /\ ret'.err = "none"
              => iteration' = iteration + 1 /\ ~ChecksInitialization')
        /\ (LawCalled /\ ret'.err # "none"
              => iteration' = iteration
                 /\ (ChecksInitialization' <=> ChecksInitialization))
        /\ (~ChecksInitialization => ~ChecksInitialization') ]_vars

\* A call threw after the one call that had returned: the counter is still 1.
C19_Witness ==
    /\ ret.op = "computeControlLaw"
    /\ ret.err # "none"
    /\ hist.okCalls = 1
    /\ iteration = 1

\* st.re is the least k with max(st.cap0, 1) * 2^k >= st.n; from a capacity of
\* one row or none that is at most the logarithm of st.n rounded up.
LeastDoublings(st) ==
    LET c == IF st.cap0 = 0 THEN 1 ELSE st.cap0
    IN  /\ c * 2 ^ st.re >= st.n
        /\ (st.re > 0 => c * 2 ^ (st.re - 1) < st.n)
        /\ (c = 1 /\ st.re > 0 => 2 ^ st.re < 2 * st.n)

\* C20: every assembly ends, and the number of times its buffer was doubled is
\* the least k such that the rows it started with (1 when it started empty)
\* times 2^k is at least the rows it ends with, for L, Lstar, s, sStar and
\* error.
C20_DoublingsAreLeast ==
    /\ LeastDoublings(lastAsm.L)
    /\ LeastDoublings(lastAsm.Lstar)
    /\ LeastDoublings(lastAsm.s)
    /\ LeastDoublings(lastAsm.sStar)
    /\ LeastDoublings(lastAsm.error)
    /\ (ret.op \in {"computeInteractionMatrix", "computeError"}
          => ret.err \in {"none", "noFeatureError", "matrixError"})

\* s started empty and ended with three rows, from contributions of one and
\* two rows: two doublings.
C20_Witness ==
    /\ ret = Ret("computeError", "none")
    /\ lastAsm.s.cap0 = 0
    /\ lastAsm.s.n = 3
    /\ lastAsm.s.re = 2
    /\ Len(featureList) = 2
    /\ lastAsm.error.re < lastAsm.s.re

\* C21: in every assembly (L, Lstar, s, sStar, error) each contribution of r
\* rows copied at cursor c found c + r at most the rows of the buffer, so that
\* no element was written at or past the end of the buffer.
C21_WritesInsideBuffer ==
    /\ ~lastAsm.L.oob
    /\ ~lastAsm.Lstar.oob
    /\ ~lastAsm.s.oob
    /\ ~lastAsm.sStar.oob
    /\ ~lastAsm.error.oob

\* L started empty, took a contribution of no row and then one of two rows, and
\* was doubled once on the way.
C21_Witness ==
    /\ ret = Ret("computeInteractionMatrix", "none")
    /\ Len(featureList) = 2
    /\ Len(interaction(featureList[1], featureSelectionList[1])) = 0
    /\ Len(interaction(featureList[2], featureSelectionList[2])) = 2
    /\ lastAsm.L.cap0 = 0
    /\ lastAsm.L.re = 1
    /\ Len(L) = 2

\* C22: every computeControlLaw() call that returns a command built cVa and aJe
\* from stored matrices that were set before the call, by the caller or by
\* setServo() for the camera-frame type, on every object and whatever was
\* called before.
C22_CommandFromSuppliedInputs ==
    [][ (LawCalled /\ ret'.err = "none")
        => (\A m \in Consumed : StoredValue(m) = "set") ]_vars

SecondaryCalled == ret'.op \in {"secondaryTask1", "secondaryTask2"}

\* C23: a secondaryTask call that returns a vector after a computeControlLaw()
\* call that returned, with no other computeControlLaw() call in between, tested
\* a rank and used a projector WpW that this computeControlLaw() call computed
\* from its J1, in pseudo-inverse and in transpose mode.
C23_ProjectorOfLastCycle ==
    [][ (SecondaryCalled /\ ret'.err = "none" /\ hist.law = "ok")
        => (/\ hist.rankCur
            /\ WpW.cur
            /\ ret'.vec.cur
            /\ rankJ1' = rankJ1
            /\ rankJ1 = J1.rank
            /\ rankJ1 # Lcols) ]_vars

\* A second cycle, in transpose mode, applied the projector, and secondaryTask
\* returned a vector.
C23_Witness ==
    /\ ret.op = "secondaryTask2"
    /\ ret.err = "none"
    /\ hist.law = "ok"
    /\ hist.okCalls = 2
    /\ inversionType = "TRANSPOSE"
    /\ WpW.cur
    /\ hist.rankCur

NoFeatureFailure(r) == r.op = "computeControlLaw" /\ r.err = "noFeatureError"

\* C24: a computeControlLaw() call that throws noFeatureError leaves lowered
\* the freshness flags that the switch on the servo type lowers, so that
\* testUpdated() is false afterwards for every type but the camera-frame one,
\* and leaves the cycle counter, L and error as they were; a computeControlLaw()
\* call that comes next with nothing supplied in between, for such a type,
\* throws servoError or reports inputs that were not updated.
C24_FailureConsumesInputs ==
    [][ /\ (LawCalled /\ NoFeatureFailure(ret'))
           => (/\ ("cVe" \in FlagsLowered => ~init_cVe')
               /\ ("fVe" \in FlagsLowered => ~init_fVe')
               /\ ("eJe" \in FlagsLowered => ~init_eJe')
               /\ ("fJe" \in FlagsLowered => ~init_fJe')
               /\ (servoType # "EYEINHAND_CAMERA" => ~TestUpdated')
               /\ UNCHANGED <<iteration, L, Lcols, error, servoType>>)
        /\ (LawCalled /\ NoFeatureFailure(ret) /\ servoType # "EYEINHAND_CAMERA")
           => (ret'.err = "servoError" \/ hist'.notUpdated) ]_vars

\* The first call of an object whose inputs were all supplied, made with no
\* feature registered: the inputs count as consumed and no cycle was counted.
C24_Witness ==
    /\ NoFeatureFailure(ret)
    /\ iteration = 0
    /\ servoType = "EYETOHAND_L_cVe_eJe"
    /\ cVe = "set" /\ eJe = "set"
    /\ ~init_cVe /\ ~init_eJe
    /\ init_fVe /\ init_fJe
    /\ featureList = << >>

====
